---- MODULE Spec2Model ----
(***************************************************************************)
(* Model of CartParser (src/src/CartParser.js): validate, parseLine,       *)
(* calcTotal and parse over CSV text.                                      *)
(*                                                                         *)
(* A JavaScript string is a sequence of one-character strings.  A number   *)
(* is an exact decimal m / 10^d, or NaN: the cells of the files below have *)
(* few digits, and the exact decimal stands for the IEEE double the        *)
(* program computes with (-0 is 0, and no text below spells Infinity).     *)
(***************************************************************************)
EXTENDS Integers, Sequences, FiniteSets, TLC

(***************************************************************************)
(* Characters and strings                                                  *)
(***************************************************************************)
NL == "\n"
Comma == ","
WhiteSpace == {" ", "\t", "\r"}

\* the value `undefined`, as a cell: no string holds this element
Undefined == <<"<undefined>">>

\* a piece of literal text of a template literal
Lit(text) == <<text>>

\* String.prototype.split with a one-character separator: the pieces between
\* the separators, one more than there are separators ("" splits into [""])
split(s, sep) ==
    LET seps == {i \in 1..Len(s) : s[i] = sep}
        \* the position of the k-th separator; 0 and Len(s) + 1 at the ends
        pos(k) == IF k = 0 THEN 0
                  ELSE IF k > Cardinality(seps) THEN Len(s) + 1
                  ELSE CHOOSE i \in seps : Cardinality({j \in seps : j < i}) = k - 1
    IN  [k \in 1..(Cardinality(seps) + 1) |-> SubSeq(s, pos(k - 1) + 1, pos(k) - 1)]

\* String.prototype.trim: from the first to the last character that is no
\* white space
trim(s) ==
    LET keep == {i \in 1..Len(s) : s[i] \notin WhiteSpace}
    IN  IF keep = {} THEN <<>>
        ELSE SubSeq(s, CHOOSE i \in keep : \A j \in keep : i <= j,
                       CHOOSE i \in keep : \A j \in keep : j <= i)

\* lines.filter(l => l): the empty string is the only falsy string
filterNonEmpty(xs) == SelectSeq(xs, LAMBDA l : l # <<>>)

\* lines.filter((l, i) => i > 0)
filterAfterFirst(xs) == IF xs = <<>> THEN <<>> ELSE Tail(xs)

\* xs[i] for a 0-based index i; undefined beyond the end
at(xs, i) == IF i + 1 \in 1..Len(xs) THEN xs[i + 1] ELSE Undefined

\* `${v}` for a string or undefined
toText(v) ==
    IF v = Undefined
    THEN <<"u", "n", "d", "e", "f", "i", "n", "e", "d">>
    ELSE v

(***************************************************************************)
(* Numbers                                                                  *)
(***************************************************************************)
RECURSIVE pow10(_)
pow10(n) == IF n = 0 THEN 1 ELSE 10 * pow10(n - 1)

NaN == [nan |-> TRUE, m |-> 0, d |-> 0]

\* the number m / 10^d in lowest terms of d (d may be negative on entry)
RECURSIVE norm(_, _)
norm(m, d) ==
    IF d < 0 THEN norm(m * pow10(0 - d), 0)
    ELSE IF m = 0 THEN [nan |-> FALSE, m |-> 0, d |-> 0]
    ELSE IF d > 0 /\ m % 10 = 0 THEN norm(m \div 10, d - 1)
    ELSE [nan |-> FALSE, m |-> m, d |-> d]

Zero == norm(0, 0)

isNaN(x) == x.nan

\* x < 0 (false for NaN)
isNegative(x) == ~x.nan /\ x.m < 0

add(x, y) ==
    IF x.nan \/ y.nan THEN NaN
    ELSE LET d == IF x.d > y.d THEN x.d ELSE y.d
         IN  norm(x.m * pow10(d - x.d) + y.m * pow10(d - y.d), d)

mul(x, y) ==
    IF x.nan \/ y.nan THEN NaN ELSE norm(x.m * y.m, x.d + y.d)

digitVal(c) ==
    CASE c = "0" -> 0 [] c = "1" -> 1 [] c = "2" -> 2 [] c = "3" -> 3
      [] c = "4" -> 4 [] c = "5" -> 5 [] c = "6" -> 6 [] c = "7" -> 7
      [] c = "8" -> 8 [] c = "9" -> 9 [] c \in {"a", "A"} -> 10
      [] c \in {"b", "B"} -> 11 [] c \in {"c", "C"} -> 12
      [] c \in {"d", "D"} -> 13 [] c \in {"e", "E"} -> 14
      [] c \in {"f", "F"} -> 15 [] OTHER -> 99

digitChar(n) ==
    CASE n = 0 -> "0" [] n = 1 -> "1" [] n = 2 -> "2" [] n = 3 -> "3"
      [] n = 4 -> "4" [] n = 5 -> "5" [] n = 6 -> "6" [] n = 7 -> "7"
      [] n = 8 -> "8" [] n = 9 -> "9"

isDigits(s, base) == \A i \in 1..Len(s) : digitVal(s[i]) < base

\* the value of the first n digits of s
RECURSIVE digitsValTo(_, _, _)
digitsValTo(s, base, n) ==
    IF n = 0 THEN 0
    ELSE digitsValTo(s, base, n - 1) * base + digitVal(s[n])

digitsVal(s, base) == digitsValTo(s, base, Len(s))

firstIndex(s, cs) ==
    IF \E i \in 1..Len(s) : s[i] \in cs
    THEN CHOOSE i \in 1..Len(s) :
             /\ s[i] \in cs
             /\ \A j \in 1..(i - 1) : s[j] \notin cs
    ELSE 0

\* an optionally signed run of decimal digits, as [ok, v]
signedInt(s) ==
    LET neg  == s # <<>> /\ Head(s) = "-"
        body == IF s # <<>> /\ Head(s) \in {"+", "-"} THEN Tail(s) ELSE s
    IN  IF body # <<>> /\ isDigits(body, 10)
        THEN [ok |-> TRUE, v |-> IF neg THEN 0 - digitsVal(body, 10) ELSE digitsVal(body, 10)]
        ELSE [ok |-> FALSE, v |-> 0]

\* StrUnsignedDecimalLiteral: digits [. digits] [e int] or . digits [e int]
unsignedDecimal(s) ==
    LET e     == firstIndex(s, {"e", "E"})
        mant  == IF e = 0 THEN s ELSE SubSeq(s, 1, e - 1)
        ex    == IF e = 0 THEN [ok |-> TRUE, v |-> 0]
                 ELSE signedInt(SubSeq(s, e + 1, Len(s)))
        p     == firstIndex(mant, {"."})
        whole == IF p = 0 THEN mant ELSE SubSeq(mant, 1, p - 1)
        frac  == IF p = 0 THEN <<>> ELSE SubSeq(mant, p + 1, Len(mant))
    IN  IF /\ ex.ok
           /\ isDigits(whole, 10)
           /\ isDigits(frac, 10)
           /\ whole \o frac # <<>>
        THEN norm(digitsVal(whole \o frac, 10), Len(frac) - ex.v)
        ELSE NaN

radixOf(c) ==
    CASE c \in {"x", "X"} -> 16 [] c \in {"o", "O"} -> 8
      [] c \in {"b", "B"} -> 2 [] OTHER -> 0

\* Number(value): StringToNumber, and NaN for undefined
Number(value) ==
    IF value = Undefined THEN NaN
    ELSE LET s == trim(value)
         IN  IF s = <<>> THEN Zero
             ELSE IF Len(s) > 2 /\ s[1] = "0" /\ radixOf(s[2]) # 0
             THEN LET ds == SubSeq(s, 3, Len(s))
                  IN  IF isDigits(ds, radixOf(s[2]))
                      THEN norm(digitsVal(ds, radixOf(s[2])), 0)
                      ELSE NaN
             ELSE IF Head(s) = "-"
             THEN LET u == unsignedDecimal(Tail(s))
                  IN  IF u.nan THEN NaN ELSE norm(0 - u.m, u.d)
             ELSE IF Head(s) = "+" THEN unsignedDecimal(Tail(s))
             ELSE unsignedDecimal(s)

\* the decimal digits of a natural number
RECURSIVE natToText(_)
natToText(n) ==
    IF n < 10 THEN <<digitChar(n)>>
    ELSE natToText(n \div 10) \o <<digitChar(n % 10)>>

\* `${n}` for an integer (cells.length, schema.columns.length)
intToText(n) == IF n < 0 THEN <<"-">> \o natToText(0 - n) ELSE natToText(n)

\* Number.prototype.toFixed(digits): the nearest n / 10^digits, the larger n
\* of two equally near ones, written with exactly `digits` decimals
toFixed(x, digits) ==
    IF x.nan THEN <<"N", "a", "N">>
    ELSE LET a    == IF x.m < 0 THEN 0 - x.m ELSE x.m
             unit == pow10(IF x.d > digits THEN x.d - digits ELSE 0)
             n    == IF x.d > digits
                     THEN (a \div unit) + (IF 2 * (a % unit) >= unit THEN 1 ELSE 0)
                     ELSE a * pow10(digits - x.d)
             whole == natToText(n \div pow10(digits))
             frac  == [i \in 1..digits |->
                          digitChar((n \div pow10(digits - i)) % 10)]
         IN  (IF x.m < 0 THEN <<"-">> ELSE <<>>)
               \o whole \o (IF digits > 0 THEN <<".">> ELSE <<>>) \o frac

(***************************************************************************)
(* CartParser: constructor                                                  *)
(***************************************************************************)
ColumnType == [STRING |-> "string", NUMBER_POSITIVE |-> "numberPositive"]

ErrorType == [HEADER |-> "header", ROW |-> "row", CELL |-> "cell"]

ProductName == <<"P", "r", "o", "d", "u", "c", "t", " ", "n", "a", "m", "e">>
Price == <<"P", "r", "i", "c", "e">>
Quantity == <<"Q", "u", "a", "n", "t", "i", "t", "y">>

\* this.schema.columns
columns ==
    << [name |-> ProductName, key |-> "name",     type |-> ColumnType.STRING],
       [name |-> Price,       key |-> "price",    type |-> ColumnType.NUMBER_POSITIVE],
       [name |-> Quantity,    key |-> "quantity", type |-> ColumnType.NUMBER_POSITIVE] >>

\* schema.columns[i] for a 0-based index i
column(i) == columns[i + 1]

(***************************************************************************)
(* createError                                                              *)
(***************************************************************************)
createError(type, row, col, message) ==
    [type |-> type, row |-> row, column |-> col, message |-> message]

RECURSIVE flatten(_)
flatten(xss) == IF xss = <<>> THEN <<>> ELSE Head(xss) \o flatten(Tail(xss))

(***************************************************************************)
(* validate                                                                 *)
(***************************************************************************)
\* linesOf with a fault: the empty lines are kept
linesOf_keepingEmpty(contents) == split(contents, NL)

\* contents.split(/\n/).filter(l => l)
linesOf(contents) == filterNonEmpty(split(contents, NL))

\* line.split(/,/) with every cell trimmed
cellsOf(line) ==
    LET parts == split(line, Comma)
    IN  [i \in 1..Len(parts) |-> trim(parts[i])]

\* headerErrors with a fault: the loop stops at the first mismatch
headerErrors_firstOnly(headers) ==
    LET bad == {i \in 0..(Len(columns) - 1) : at(headers, i) # column(i).name}
    IN  IF bad = {} THEN <<>>
        ELSE LET i == CHOOSE b \in bad : \A c \in bad : b <= c
             IN  << createError(ErrorType.HEADER, 0, i,
                       << Lit("Expected header to be named \""), column(i).name,
                          Lit("\" but received "), toText(at(headers, i)),
                          Lit(".") >>) >>

\* the header loop: one comparison per schema column
headerErrors(headers) ==
    flatten([k \in 1..Len(columns) |->
        LET i == k - 1
            expectedName == column(i).name
        IN  IF at(headers, i) # expectedName
            THEN << createError(ErrorType.HEADER, 0, i,
                      << Lit("Expected header to be named \""), expectedName,
                         Lit("\" but received "), toText(at(headers, i)),
                         Lit(".") >>) >>
            ELSE <<>>])

\* the switch on the column type for cell j of body row `row`; the test
\* typeof (cellAsNumber) != 'number' is false of every result of Number
cellErrors(cell, row, j) ==
    LET columnType == column(j).type
    IN  CASE columnType = ColumnType.STRING ->
               IF cell = <<>> \/ cell = Undefined
               THEN << createError(ErrorType.CELL, row, j,
                         << Lit("Expected cell to be a nonempty string but received \""),
                            toText(cell), Lit("\".") >>) >>
               ELSE <<>>
          [] columnType = ColumnType.NUMBER_POSITIVE ->
               LET cellAsNumber == Number(cell)
               IN  IF isNaN(cellAsNumber) \/ isNegative(cellAsNumber)
                   THEN << createError(ErrorType.CELL, row, j,
                             << Lit("Expected cell to be a positive number but received \""),
                                toText(cell), Lit("\".") >>) >>
                   ELSE <<>>
          [] OTHER -> <<>>

\* rowErrors with a fault: no `continue` after the ROW error, so the cells
\* are checked as well
rowErrors_noContinue(line, row) ==
    LET cells == cellsOf(line)
    IN  (IF Len(cells) < Len(columns)
         THEN << createError(ErrorType.ROW, row, -1,
                   << Lit("Expected row to have "), intToText(Len(columns)),
                      Lit(" cells but received "), intToText(Len(cells)),
                      Lit(".") >>) >>
         ELSE <<>>)
        \o flatten([k \in 1..Len(columns) |-> cellErrors(at(cells, k - 1), row, k - 1)])

\* one pass of the body loop: the length check, then the cells
rowErrors(line, row) ==
    LET cells == cellsOf(line)
    IN  IF Len(cells) < Len(columns)
        THEN << createError(ErrorType.ROW, row, -1,
                  << Lit("Expected row to have "), intToText(Len(columns)),
                     Lit(" cells but received "), intToText(Len(cells)),
                     Lit(".") >>) >>
        ELSE flatten([k \in 1..Len(columns) |-> cellErrors(cells[k], row, k - 1)])

\* validate(contents): [threw, errors]; headersLine.split throws a TypeError
\* when there is no line
validate(contents) ==
    LET lines == linesOf(contents)
        headersLine == at(lines, 0)
        bodyLines == filterAfterFirst(lines)
    IN  IF headersLine = Undefined
        THEN [threw |-> TRUE, errors |-> <<>>]
        ELSE [threw |-> FALSE,
              errors |-> headerErrors(cellsOf(headersLine))
                         \o flatten([i \in 1..Len(bodyLines) |->
                                        rowErrors(bodyLines[i], i)])]

(***************************************************************************)
(* parseLine, calcTotal, parse                                              *)
(***************************************************************************)
Keys == {columns[k].key : k \in 1..Len(columns)}

\* parseLine with a fault: the cells are not trimmed
parseLine_untrimmed(csvLine, calls) ==
    LET values == split(csvLine, Comma)
        valueTyped(i) == IF column(i).type = ColumnType.NUMBER_POSITIVE
                         THEN Number(at(values, i))
                         ELSE at(values, i)
        idx(key) == CHOOSE i \in 0..(Len(columns) - 1) : column(i).key = key
    IN  [item  |-> [key \in Keys \cup {"id"} |->
                       IF key = "id" THEN calls + 1 ELSE valueTyped(idx(key))],
         calls |-> calls + 1]

\* parseLine with a fault: the numbers are read one cell to the left
parseLine_shifted(csvLine, calls) ==
    LET values == cellsOf(csvLine)
        valueTyped(i) == IF column(i).type = ColumnType.NUMBER_POSITIVE
                         THEN Number(at(values, i - 1))
                         ELSE at(values, i)
        idx(key) == CHOOSE i \in 0..(Len(columns) - 1) : column(i).key = key
    IN  [item  |-> [key \in Keys \cup {"id"} |->
                       IF key = "id" THEN calls + 1 ELSE valueTyped(idx(key))],
         calls |-> calls + 1]

\* parseLine(csvLine) with `calls` requests made to uuid.v4 so far: the item,
\* whose id is the ordinal of its request, and the number of requests afterwards
parseLine(csvLine, calls) ==
    LET values == cellsOf(csvLine)
        valueTyped(i) == IF column(i).type = ColumnType.NUMBER_POSITIVE
                         THEN Number(at(values, i))
                         ELSE at(values, i)
        idx(key) == CHOOSE i \in 0..(Len(columns) - 1) : column(i).key = key
    IN  [item  |-> [key \in Keys \cup {"id"} |->
                       IF key = "id" THEN calls + 1 ELSE valueTyped(idx(key))],
         calls |-> calls + 1]

\* the accumulator of the reduce after the first n items
RECURSIVE reduceTo(_, _)
reduceTo(cartItems, n) ==
    IF n = 0 THEN Zero
    ELSE add(reduceTo(cartItems, n - 1),
             mul(cartItems[n].price, cartItems[n].quantity))

\* calcTotal with a fault: the reduce starts from the first item's price
\* instead of 0
calcTotal_noInitialValue(cartItems) ==
    IF cartItems = <<>> THEN Zero
    ELSE add(reduceTo(cartItems, Len(cartItems)), cartItems[1].price)

\* cartItems.reduce((acc, cur) => acc + cur.price * cur.quantity, 0)
calcTotal(cartItems) == reduceTo(cartItems, Len(cartItems))

\* the items of lines.map with parseLine, and the requests afterwards
RECURSIVE parseLines(_, _)
parseLines(lines, calls) ==
    IF lines = <<>> THEN [items |-> <<>>, calls |-> calls]
    ELSE LET first == parseLine(Head(lines), calls)
             rest  == parseLines(Tail(lines), first.calls)
         IN  [items |-> <<first.item>> \o rest.items, calls |-> rest.calls]

ValidationFailed == "Validation failed!"
TypeError == "TypeError"
NoError == ""

\* parse with a fault: the validation errors are logged but do not stop the call
parse_ignoringErrors(contents, calls) ==
    LET validation == validate(contents)
        parsed == parseLines(filterAfterFirst(linesOf(contents)), calls)
    IN  IF validation.threw
        THEN [threw |-> TypeError, logged |-> <<>>, items |-> <<>>,
              total |-> Zero, calls |-> calls]
        ELSE [threw |-> NoError, logged |-> validation.errors, items |-> parsed.items,
              total |-> Number(toFixed(calcTotal(parsed.items), 2)),
              calls |-> parsed.calls]

\* parse(path) where readFile(path) returns `contents`, with `calls` requests
\* made to uuid.v4 so far
parse(contents, calls) ==
    LET validation == validate(contents)
        validationErrors == validation.errors
        parsed == parseLines(filterAfterFirst(linesOf(contents)), calls)
        total == calcTotal(parsed.items)
    IN  IF validation.threw
        THEN [threw |-> TypeError, logged |-> <<>>, items |-> <<>>,
              total |-> Zero, calls |-> calls]
        ELSE IF Len(validationErrors) > 0
        THEN [threw |-> ValidationFailed, logged |-> validationErrors,
              items |-> <<>>, total |-> Zero, calls |-> calls]
        ELSE [threw |-> NoError, logged |-> <<>>, items |-> parsed.items,
              total |-> Number(toFixed(total, 2)), calls |-> parsed.calls]

(***************************************************************************)
(* Inputs: a file is a sequence of non-empty lines, each a sequence of raw *)
(* cells, with `extra` empty lines inserted at one gap (gap 0 is before    *)
(* the first line, gap n after the n-th).                                  *)
(***************************************************************************)
MaxRows == 2
MaxBlank == 1

HeaderLines ==
    { <<ProductName, Price, Quantity>>,
      << <<" ">> \o ProductName, Price \o <<"\t">>, <<" ">> \o Quantity \o <<"\r">> >>,
      <<ProductName, <<"P", "r", "i", "i", "i", "c", "e">>, Quantity>>,
      <<ProductName, Price>>,
      << <<" ">> >> }

BodyRows ==
    { << <<"a">>, <<"9", ".", "0", "0">>, <<"2">> >>,
      << <<"\t", "b", " ", "c">>, <<" ", "0", ".", "1", "2", "5">>, <<"3", "\r">> >>,
      << <<"a">>, <<"1">> >>,
      << <<" ">>, <<"1">>, <<"1">> >>,
      << <<"a">>, <<"-", "1", "0">>, <<"1">> >>,
      << <<"a">>, <<"1">>, <<"n", "o">> >>,
      << <<"a">>, <<>>, <<"2">> >>,
      << <<"a">>, <<"1">>, <<"2">>, <<"3">> >> }

RECURSIVE SeqsUpTo(_, _)
SeqsUpTo(S, n) ==
    IF n = 0 THEN {<<>>}
    ELSE LET shorter == SeqsUpTo(S, n - 1)
         IN  shorter \cup {Append(xs, x) : xs \in shorter, x \in S}

\* no line at all, or a first line and up to MaxRows further lines
LineSeqs ==
    {<<>>} \cup {<<h>> \o rows : h \in HeaderLines, rows \in SeqsUpTo(BodyRows, MaxRows)}

Docs ==
    {[lines |-> ls, gap |-> g, extra |-> e] :
        ls \in LineSeqs, g \in 0..(MaxRows + 1), e \in 0..MaxBlank}

WellFormed(doc) ==
    /\ doc.gap <= Len(doc.lines)
    /\ doc.extra = 0 => doc.gap = 0

RECURSIVE join(_, _)
join(xs, sep) ==
    IF xs = <<>> THEN <<>>
    ELSE IF Len(xs) = 1 THEN xs[1]
    ELSE xs[1] \o <<sep>> \o join(Tail(xs), sep)

RenderLine(cells) == join(cells, Comma)

\* the text of the file: the lines joined by newlines, with the empty lines
Render(doc) ==
    LET n == Len(doc.lines)
        blank == [i \in 1..doc.extra |-> <<>>]
        all == SubSeq([i \in 1..n |-> RenderLine(doc.lines[i])], 1, doc.gap)
                 \o blank
                 \o SubSeq([i \in 1..n |-> RenderLine(doc.lines[i])], doc.gap + 1, n)
    IN  IF doc.gap = n /\ n > 0
        THEN join([i \in 1..n |-> RenderLine(doc.lines[i])], NL)
               \o [i \in 1..doc.extra |-> NL]
        ELSE IF n = 0 THEN [i \in 1..doc.extra |-> NL]
        ELSE join(all, NL)

NoItem == [name |-> <<>>, price |-> Zero, quantity |-> Zero, id |-> 0]

\* the objects a caller of calcTotal builds from the rows that have the cells
itemsOf(rows) ==
    LET full == SelectSeq(rows, LAMBDA cells : Len(cells) >= Len(columns))
    IN  [k \in 1..Len(full) |->
            [name |-> full[k][1], price |-> Number(full[k][2]),
             quantity |-> Number(full[k][3]), id |-> k]]

(***************************************************************************)
(* State: one parser, one file, one call                                    *)
(***************************************************************************)
VARIABLES
    doc,        \* the file, as lines of raw cells and the empty lines
    op,         \* the method called on the new parser
    contents,   \* its string argument (for parse, what readFile returned)
    threw,      \* the error it threw, NoError when it returned
    errors,     \* validate: the returned array
    items,      \* parse: result.items; calcTotal: the argument
    total,      \* parse: result.total; calcTotal: the returned number
    item,       \* parseLine: the returned object
    logged,     \* what the call passed to console.error
    uuidCalls   \* the number of calls of uuid.v4 so far

vars == <<doc, op, contents, threw, errors, items, total, item, logged, uuidCalls>>

\* beforeEach: a new parser, any file, nothing called yet
Init ==
    /\ doc \in {d \in Docs : WellFormed(d)}
    /\ op = "new"
    /\ contents = <<>>
    /\ threw = NoError
    /\ errors = <<>>
    /\ items = <<>>
    /\ total = Zero
    /\ item = NoItem
    /\ logged = <<>>
    /\ uuidCalls = 0

\* parser.validate(contents) on the text of the file
CallValidate ==
    /\ op = "new"
    /\ \E text \in {Render(doc)} : \E r \in {validate(text)} :
           /\ op' = "validate"
           /\ contents' = text
           /\ threw' = IF r.threw THEN TypeError ELSE NoError
           /\ errors' = r.errors
           /\ UNCHANGED <<doc, items, total, item, logged, uuidCalls>>

\* parser.parse(path) where readFile(path) returns the text of the file;
\* console.error receives the validation errors before the throw
CallParse ==
    /\ op = "new"
    /\ \E text \in {Render(doc)} : \E r \in {parse(text, uuidCalls)} :
           /\ op' = "parse"
           /\ contents' = text
           /\ threw' = r.threw
           /\ items' = r.items
           /\ total' = r.total
           /\ logged' = r.logged
           /\ uuidCalls' = r.calls
           /\ UNCHANGED <<doc, errors, item>>

\* parser.parseLine(csvLine) on one line of the file, header line included;
\* doc keeps the line it was called on
CallParseLine ==
    /\ op = "new"
    /\ \E k \in 1..Len(doc.lines) :
        \E csvLine \in {RenderLine(doc.lines[k])} :
        \E r \in {parseLine(csvLine, uuidCalls)} :
            /\ op' = "parseLine"
            /\ doc' = [lines |-> <<doc.lines[k]>>, gap |-> 0, extra |-> 0]
            /\ contents' = csvLine
            /\ item' = r.item
            /\ uuidCalls' = r.calls
            /\ UNCHANGED <<threw, errors, items, total, logged>>

\* parser.calcTotal(cartItems) on objects built from the body rows
CallCalcTotal ==
    /\ op = "new"
    /\ doc.lines # <<>>
    /\ doc.extra = 0
    /\ \E cartItems \in {itemsOf(Tail(doc.lines))} :
           /\ op' = "calcTotal"
           /\ items' = cartItems
           /\ total' = calcTotal(cartItems)
           /\ UNCHANGED <<doc, contents, threw, errors, item, logged, uuidCalls>>

Next == CallValidate \/ CallParse \/ CallParseLine \/ CallCalcTotal

Spec == Init /\ [][Next]_vars

(***************************************************************************)
(* Properties                                                               *)
(***************************************************************************)
\* the header line and the body rows of the file, as raw cells
Header == doc.lines[1]
Body == IF doc.lines = <<>> THEN <<>> ELSE Tail(doc.lines)

HasHeader == doc.lines # <<>>

\* the positions in `errors` of the errors of a type at a row and a column
ErrorsAt(type, row, col) ==
    {e \in 1..Len(errors) :
        /\ errors[e].type = type
        /\ errors[e].row = row
        /\ errors[e].column = col}

\* the positions in `errors` of the errors of a type at a row
ErrorsOfRow(type, row) ==
    {e \in 1..Len(errors) : errors[e].type = type /\ errors[e].row = row}

ValidateReturned == op = "validate" /\ threw = NoError

\* C1: validate never fails: for every string, also one without any
\* non-empty line, it returns a list of errors and raises no exception.
C1_ValidateNeverFails == op = "validate" => threw = NoError

\* C2: parse returns a result only when validate returns no error on the same
\* contents; when validate returns an error, parse fails with "Validation
\* failed!", builds no item, requests no identifier and returns nothing.
C2_ParseOnlyWhenValid ==
    op = "parse" =>
        LET v == validate(contents)
        IN  /\ threw = NoError => (~v.threw /\ v.errors = <<>>)
            /\ (~v.threw /\ v.errors # <<>>) =>
                  /\ threw = ValidationFailed
                  /\ items = <<>>
                  /\ total = Zero
                  /\ uuidCalls = 0

C2_Witness ==
    /\ op = "parse"
    /\ threw = ValidationFailed
    /\ Len(doc.lines) = 3
    /\ logged # <<>>

\* a cell that reads as a number that is not negative
NonNegativeNumeric(cell) ==
    /\ trim(cell) # <<>>
    /\ ~isNaN(Number(trim(cell)))
    /\ ~isNegative(Number(trim(cell)))

ValidHeader ==
    /\ Len(Header) = Len(columns)
    /\ \A i \in 1..Len(columns) : trim(Header[i]) = columns[i].name

ValidRow(cells) ==
    /\ Len(cells) = Len(columns)
    /\ trim(cells[1]) # <<>>
    /\ NonNegativeNumeric(cells[2])
    /\ NonNegativeNumeric(cells[3])

ValidFile ==
    /\ HasHeader
    /\ ValidHeader
    /\ \A k \in 1..Len(Body) : ValidRow(Body[k])

\* the largest number of decimals of a product price * quantity, at least 2
ProductScale(its) ==
    LET ds == {2} \cup {its[k].price.d + its[k].quantity.d : k \in 1..Len(its)}
    IN  CHOOSE d \in ds : \A e \in ds : e <= d

\* the sum of price * quantity in units of 10^-scale
RECURSIVE SumInUnits(_, _)
SumInUnits(its, scale) ==
    IF its = <<>> THEN 0
    ELSE its[1].price.m * its[1].quantity.m
           * pow10(scale - its[1].price.d - its[1].quantity.d)
         + SumInUnits(Tail(its), scale)

\* t has at most 2 decimals and no number of 2 decimals is nearer to the sum
IsSumRoundedTo2(t, its) ==
    LET scale == ProductScale(its)
        sum   == SumInUnits(its, scale)
        diff  == sum - t.m * pow10(scale - t.d)
    IN  /\ ~t.nan
        /\ t.d <= 2
        /\ 2 * diff <= pow10(scale - 2)
        /\ 2 * diff >= 0 - pow10(scale - 2)

\* C3: on a valid file validate returns no error, and parse returns one item
\* per body row, the k-th built from the k-th row, and a total equal to the
\* sum of price * quantity rounded to 2 decimals (0 for a header-only file).
C3_ValidFileParses ==
    ValidFile =>
        /\ op = "validate" => (threw = NoError /\ errors = <<>>)
        /\ op = "parse" =>
              /\ threw = NoError
              /\ Len(items) = Len(Body)
              /\ \A k \in 1..Len(Body) :
                    /\ items[k].name = trim(Body[k][1])
                    /\ items[k].price = Number(trim(Body[k][2]))
                    /\ items[k].quantity = Number(trim(Body[k][3]))
              /\ IsSumRoundedTo2(total, items)
              /\ Len(Body) = 0 => total = Zero

C3_Witness ==
    /\ ValidFile
    /\ op = "parse"
    /\ Len(items) = 2
    /\ items[1].name # items[2].name
    /\ total = [nan |-> FALSE, m |-> 1838, d |-> 2]

\* the header token at 0-based index i, trimmed; undefined when it is missing
HeaderToken(i) == IF i < Len(Header) THEN trim(Header[i + 1]) ELSE Undefined

\* C4: with a header line, validate reports a HEADER error at row 0 and
\* column i exactly when the trimmed i-th header token differs from the i-th
\* column name (a missing token differs); at most one per index, and the
\* message carries the expected name and the received token.
C4_HeaderErrors ==
    (ValidateReturned /\ HasHeader) =>
        /\ \A i \in 0..(Len(columns) - 1) :
              /\ (ErrorsAt(ErrorType.HEADER, 0, i) # {})
                    <=> (HeaderToken(i) # columns[i + 1].name)
              /\ Cardinality(ErrorsAt(ErrorType.HEADER, 0, i)) <= 1
              /\ \A e \in ErrorsAt(ErrorType.HEADER, 0, i) :
                    /\ errors[e].message[2] = columns[i + 1].name
                    /\ errors[e].message[4] = toText(HeaderToken(i))
        /\ \A e \in 1..Len(errors) :
              errors[e].type = ErrorType.HEADER =>
                  (errors[e].row = 0 /\ errors[e].column \in 0..(Len(columns) - 1))

C4_Witness ==
    /\ ValidateReturned
    /\ HasHeader
    /\ Len(Header) = 1
    /\ \A i \in 0..(Len(columns) - 1) : ErrorsAt(ErrorType.HEADER, 0, i) # {}

\* C5: a body row with fewer than 3 cells gets exactly one ROW error, at
\* (its 1-based position, -1), and no CELL error; the rows after it are
\* still validated.
C5_ShortRow ==
    ValidateReturned =>
        \A k \in 1..Len(Body) :
            Len(Body[k]) < Len(columns) =>
                /\ Cardinality(ErrorsOfRow(ErrorType.ROW, k)) = 1
                /\ Cardinality(ErrorsAt(ErrorType.ROW, k, -1)) = 1
                /\ ErrorsOfRow(ErrorType.CELL, k) = {}
                /\ \A n \in (k + 1)..Len(Body) :
                      /\ Len(Body[n]) < Len(columns)
                            => ErrorsAt(ErrorType.ROW, n, -1) # {}
                      /\ (Len(Body[n]) >= Len(columns) /\ trim(Body[n][1]) = <<>>)
                            => ErrorsAt(ErrorType.CELL, n, 0) # {}

C5_Witness ==
    /\ ValidateReturned
    /\ Len(Body) = 2
    /\ Len(Body[1]) < Len(columns)
    /\ ErrorsAt(ErrorType.ROW, 1, -1) # {}
    /\ ErrorsAt(ErrorType.CELL, 2, 0) # {}

\* a trimmed cell that is no number: the empty text, or text Number rejects
NonNumeric(cell) == cell = <<>> \/ isNaN(Number(cell))

\* C6: in a body row with at least 3 cells, validate reports a CELL error at
\* (row, j) when column j is a string column and the trimmed cell is empty,
\* and when column j is a number column and the trimmed cell is non-numeric
\* or negative.
C6_CellErrors ==
    ValidateReturned =>
        \A k \in 1..Len(Body) :
            Len(Body[k]) >= Len(columns) =>
                \A j \in 0..(Len(columns) - 1) :
                    LET cell == trim(Body[k][j + 1])
                    IN  /\ (columns[j + 1].type = ColumnType.STRING /\ cell = <<>>)
                              => ErrorsAt(ErrorType.CELL, k, j) # {}
                        /\ (/\ columns[j + 1].type = ColumnType.NUMBER_POSITIVE
                            /\ (NonNumeric(cell) \/ isNegative(Number(cell))))
                              => ErrorsAt(ErrorType.CELL, k, j) # {}

\* C7: when validate returns no error, every body row has exactly 3 cells.
C7_ExactlyThreeCells ==
    (ValidateReturned /\ errors = <<>>) =>
        \A k \in 1..Len(Body) : Len(Body[k]) = Len(columns)

\* C8: every item parse returns has a price and a quantity that are numbers,
\* not NaN and not negative: the values validate checked.
C8_ItemsNonNegative ==
    (op = "parse" /\ threw = NoError) =>
        \A k \in 1..Len(items) :
            /\ ~isNaN(items[k].price) /\ ~isNegative(items[k].price)
            /\ ~isNaN(items[k].quantity) /\ ~isNegative(items[k].quantity)
            /\ items[k].price = Number(trim(Body[k][2]))
            /\ items[k].quantity = Number(trim(Body[k][3]))

C8_Witness ==
    /\ op = "parse"
    /\ threw = NoError
    /\ Len(items) = 2
    /\ items[2].price = [nan |-> FALSE, m |-> 125, d |-> 3]

\* the line parseLine was called on, as raw cells
Line == doc.lines[1]

\* the line passes the checks validate makes of a body row
ValidatedLine ==
    /\ Len(Line) >= Len(columns)
    /\ trim(Line[1]) # <<>>
    /\ \A j \in 2..Len(columns) :
          ~isNaN(Number(trim(Line[j]))) /\ ~isNegative(Number(trim(Line[j])))

\* C9: for a validated line parseLine returns an item with the trimmed cell i
\* under the key of column i, the number columns as numbers and the string
\* column as trimmed text, and an id from exactly one request to the
\* identifier source; the item has no other field.
C9_ParseLineMapsCells ==
    (op = "parseLine" /\ ValidatedLine) =>
        /\ DOMAIN item = {"id", "name", "price", "quantity"}
        /\ item.name = trim(Line[1])
        /\ item.price = Number(trim(Line[2]))
        /\ item.quantity = Number(trim(Line[3]))
        /\ Line[2] = <<"9", ".", "0", "0">> => item.price = [nan |-> FALSE, m |-> 9, d |-> 0]
        /\ uuidCalls = 1
        /\ item.id = uuidCalls

C9_Witness ==
    /\ op = "parseLine"
    /\ ValidatedLine
    /\ Line[1] = <<"\t", "b", " ", "c">>
    /\ item.name = <<"b", " ", "c">>
    /\ item.quantity = [nan |-> FALSE, m |-> 3, d |-> 0]
    /\ uuidCalls = 1

\* the file without its empty lines
WithoutEmptyLines == Render([doc EXCEPT !.gap = 0, !.extra = 0])

\* C10: empty lines are invisible: validate returns the same list, and parse
\* the same items and total, with and without them; the body rows are
\* numbered 1..N by their position among the non-empty lines after the header.
C10_EmptyLinesInvisible ==
    /\ op = "validate" =>
          /\ threw = (IF validate(WithoutEmptyLines).threw THEN TypeError ELSE NoError)
          /\ errors = validate(WithoutEmptyLines).errors
          /\ \A e \in 1..Len(errors) : errors[e].row \in 0..Len(Body)
          /\ HasHeader =>
                \A k \in 1..Len(Body) :
                    SelectSeq(errors, LAMBDA x : x.row = k)
                        = rowErrors(RenderLine(Body[k]), k)
    /\ op = "parse" =>
          LET r == parse(WithoutEmptyLines, 0)
          IN  /\ threw = r.threw
              /\ items = r.items
              /\ total = r.total

C10_Witness ==
    /\ op = "validate"
    /\ doc.extra > 0
    /\ doc.gap = 2
    /\ Len(Body) = 2
    /\ errors # <<>>
    /\ \A e \in 1..Len(errors) : errors[e].row = 2
====
